---- MODULE Spec2Model ----
(***************************************************************************)
(* codemapper.py: the file-selection engine of CodeMapGenerator and the    *)
(* traversal of generate_map, as a state machine.                          *)
(*                                                                         *)
(* A Python str is modelled as a sequence of one-character strings, so     *)
(* that startswith, the substring test `in`, Path.suffix, lower() and      *)
(* sorted() are computed character by character as Python computes them.   *)
(* A pathlib.Path is modelled by its tuple of parts.  Paths are POSIX.     *)
(***************************************************************************)
EXTENDS Integers, Sequences, FiniteSets, TLC

(***************************************************************************)
(* str                                                                     *)
(***************************************************************************)

\* The characters in use, in code point order (sorted() compares code points).
Alphabet ==
  <<"\n", " ", ".", "/", ":",
    "A","B","C","D","E","F","G","H","I","J","K","L","M",
    "N","O","P","Q","R","S","T","U","V","W","X","Y","Z",
    "[", "\\", "]", "_",
    "a","b","c","d","e","f","g","h","i","j","k","l","m",
    "n","o","p","q","r","s","t","u","v","w","x","y","z">>

Ord(c) == CHOOSE i \in 1..Len(Alphabet) : Alphabet[i] = c

UpperCase == {Alphabet[i] : i \in Ord("A")..Ord("Z")}

\* str.lower(), one character
LowerChar(c) == IF c \in UpperCase THEN Alphabet[Ord(c) - Ord("A") + Ord("a")] ELSE c

\* str.lower()
Lower(s) == [i \in 1..Len(s) |-> LowerChar(s[i])]

\* str.startswith(p)
StartsWith(s, p) == Len(p) <= Len(s) /\ SubSeq(s, 1, Len(p)) = p

\* str.endswith(p)
EndsWith(s, p) == Len(p) <= Len(s) /\ SubSeq(s, Len(s) - Len(p) + 1, Len(s)) = p

\* p in s, for strings
Contains(s, p) == \E i \in 1..(Len(s) - Len(p) + 1) : SubSeq(s, i, i + Len(p) - 1) = p

\* str.replace(a, b) for single characters a, b
Replace(s, a, b) == [i \in 1..Len(s) |-> IF s[i] = a THEN b ELSE s[i]]

\* a < b for strings: lexicographic by code point
RECURSIVE LexLess(_, _)
LexLess(a, b) ==
  IF a = <<>> THEN b # <<>>
  ELSE IF b = <<>> THEN FALSE
  ELSE IF a[1] = b[1] THEN LexLess(Tail(a), Tail(b))
  ELSE Ord(a[1]) < Ord(b[1])

\* sorted() left out: the files in the order of the listing
unsorted(l) == l

\* the position of l[j] in sorted(l): one more than the number of elements
\* that sort before it (the sort is stable)
Rank(l, j) ==
  1 + Cardinality({k \in 1..Len(l) : LexLess(l[k], l[j]) \/ (l[k] = l[j] /\ k < j)})

\* sorted(list of str)
sorted(l) == [i \in 1..Len(l) |-> l[CHOOSE j \in 1..Len(l) : Rank(l, j) = i]]

(***************************************************************************)
(* pathlib.Path                                                            *)
(***************************************************************************)

\* s.split("/")
RECURSIVE Split(_)
Split(s) ==
  IF \A i \in 1..Len(s) : s[i] # "/" THEN <<s>>
  ELSE LET i == CHOOSE k \in 1..Len(s) : s[k] = "/" /\ \A j \in 1..(k - 1) : s[j] # "/"
       IN  <<SubSeq(s, 1, i - 1)>> \o Split(SubSeq(s, i + 1, Len(s)))

\* "/".join(parts)
RECURSIVE Join(_)
Join(parts) ==
  IF parts = <<>> THEN <<>>
  ELSE IF Len(parts) = 1 THEN parts[1]
  ELSE parts[1] \o <<"/">> \o Join(Tail(parts))

\* Path(s).parts for a relative path: empty and "." components are dropped
PathParts(s) == SelectSeq(Split(s), LAMBDA p : p # <<>> /\ p # <<".">>)

\* str(Path): the parts joined, "." for the empty path
PathStr(parts) == IF parts = <<>> THEN <<".">> ELSE Join(parts)

\* Path.name: the last part, "" for the empty path
PathName(parts) == IF parts = <<>> THEN <<>> ELSE parts[Len(parts)]

\* Path.suffix: from the last dot of the name, when that dot is neither the
\* first nor the last character
PathSuffix(parts) ==
  LET name == PathName(parts)
      dots == {i \in 1..Len(name) : name[i] = "."}
  IN  IF dots = {} THEN <<>>
      ELSE LET i == CHOOSE k \in dots : \A j \in dots : j <= k
           IN  IF 1 < i /\ i < Len(name) THEN SubSeq(name, i, Len(name)) ELSE <<>>

(***************************************************************************)
(* Module constants                                                        *)
(***************************************************************************)

DEFAULT_TEXT_EXTENSIONS ==
  { <<".","p","h","p">>, <<".","p","y">>, <<".","j","s">>, <<".","j","s","x">>, <<".","t","s">>, <<".","t","s","x">>, <<".","h","t","m","l">>, <<".","c","s","s">>,
    <<".","s","c","s","s">>, <<".","j","s","o","n">>, <<".","x","m","l">>, <<".","y","m","l">>, <<".","y","a","m","l">>, <<".","m","d">>, <<".","t","x","t">>, <<".","s","q","l">>,
    <<".","s","h">>, <<".","b","a","s","h">>, <<".","j","a","v","a">>, <<".","c">>, <<".","c","p","p">>, <<".","h">>, <<".","h","p","p">>, <<".","c","s">>,
    <<".","g","o">>, <<".","r","s">>, <<".","r","b">>, <<".","v","u","e">>, <<".","s","v","e","l","t","e">>, <<".","a","s","t","r","o">>, <<".","e","n","v">>,
    <<".","g","i","t","i","g","n","o","r","e">>, <<".","h","t","a","c","c","e","s","s">>, <<".","c","o","n","f">>, <<".","i","n","i">>, <<".","s","a","s","s">>, <<".","l","e","s","s">>,
    <<".","l","o","c","k">>, <<".","t","o","m","l">>, <<".","d","o","c","k","e","r","f","i","l","e">>, <<".","e","d","i","t","o","r","c","o","n","f","i","g">> }

COMMON_SKIP_FOLDERS ==
  { <<"n","o","d","e","_","m","o","d","u","l","e","s">>, <<".","g","i","t">>, <<".","s","v","n">>, <<"_","_","p","y","c","a","c","h","e","_","_">>, <<"v","e","n","d","o","r">>, <<".","i","d","e","a">>,
    <<".","v","s","c","o","d","e">>, <<"d","i","s","t">>, <<"b","u","i","l","d">>, <<".","n","e","x","t">>, <<".","c","a","c","h","e">>, <<"c","o","v","e","r","a","g","e">>,
    <<".","p","y","t","e","s","t","_","c","a","c","h","e">>, <<".","m","y","p","y","_","c","a","c","h","e">>, <<"v","e","n","v">>, <<"e","n","v">>, <<"c","o","d","e","m","a","p","p","e","r">> }

\* the literals of should_process_folder and should_process_file
codemapper == <<"c","o","d","e","m","a","p","p","e","r">>
codemapper_slash == <<"c","o","d","e","m","a","p","p","e","r","/">>
codemapper_backslash == <<"c","o","d","e","m","a","p","p","e","r","\\">>

\* script_name (not frozen), always added to except_files
script_name == <<"c","o","d","e","m","a","p","p","e","r",".","p","y">>

\* max_file_size with the default max_file_size_mb
max_file_size == 10 * 1024 * 1024

\* the content read_file_safely returns for a failed read (no trailing newline)
ErrorMarker == <<"[","E","r","r","o","r",":"," ","e","]">>

(***************************************************************************)
(* The file system the run reads.  Two directory trees, a path that does   *)
(* not exist and a path that is a regular file.  A listing gives the       *)
(* entries of a directory in the order os.walk presents them (not sorted). *)
(***************************************************************************)

n_src == <<"s","r","c">>
n_app == <<"a","p","p">>
n_node_modules == <<"n","o","d","e","_","m","o","d","u","l","e","s">>
n_lib == <<"l","i","b">>
n_output == <<"o","u","t","p","u","t">>
n_xcodemapper == <<"x","c","o","d","e","m","a","p","p","e","r">>

n_a_txt == <<"a",".","t","x","t">>
n_b_png == <<"b",".","p","n","g">>
n_big_sql == <<"b","i","g",".","s","q","l">>
n_README_MD == <<"R","E","A","D","M","E",".","M","D">>
n_m_py == <<"m",".","p","y">>
n_n_txt == <<"n",".","t","x","t">>
n_v_vue == <<"v",".","v","u","e">>
n_x_js == <<"x",".","j","s">>
n_y_js == <<"y",".","j","s">>
n_f_txt == <<"f",".","t","x","t">>
n_code_map_txt == <<"c","o","d","e","_","m","a","p",".","t","x","t">>

\* A file: its parts below the root, st_size, whether stat() succeeds, how the
\* read ends ("utf8": decoded; "latin1": UnicodeDecodeError, then decoded as
\* Latin-1; "error": the read raises) and the decoded content.
File(path, size, stat_ok, read, content) ==
  [path |-> path, size |-> size, stat_ok |-> stat_ok, read |-> read, content |-> content]

R1Files ==
  { File(<<n_a_txt>>, 5, TRUE, "utf8", <<"h","e","l","l","o">>),
    File(<<n_b_png>>, 9, TRUE, "utf8", <<>>),
    File(<<n_big_sql>>, max_file_size + 1, TRUE, "utf8", <<"b","i","g","\n">>),
    File(<<script_name>>, 7, TRUE, "utf8", <<"p","y","\n">>),
    File(<<n_README_MD>>, 0, TRUE, "utf8", <<>>),
    File(<<n_src, n_n_txt>>, 4, FALSE, "latin1", <<"n","\n","\n">>),
    File(<<n_src, n_m_py>>, 6, TRUE, "error", <<>>),
    File(<<n_src, codemapper>>, 3, TRUE, "utf8", <<>>),
    File(<<n_src, n_app, n_v_vue>>, 2, TRUE, "utf8", <<"v","\n">>),
    File(<<n_node_modules, n_x_js>>, 1, TRUE, "utf8", <<"x">>),
    File(<<n_node_modules, n_lib, n_y_js>>, 8, TRUE, "utf8", <<"y","\n">>),
    File(<<codemapper, n_output, n_code_map_txt>>, 11, TRUE, "utf8", <<"M","A","P","\n">>),
    File(<<n_xcodemapper, n_f_txt>>, 12, TRUE, "utf8", <<"f","\n">>) }

R1Listing ==
  (<<>> :> [dirs  |-> <<n_src, n_node_modules, codemapper, n_xcodemapper>>,
            files |-> <<n_b_png, n_a_txt, script_name, n_big_sql, n_README_MD>>])
  @@ (<<n_src>> :> [dirs |-> <<n_app>>, files |-> <<n_n_txt, n_m_py, codemapper>>])
  @@ (<<n_src, n_app>> :> [dirs |-> <<>>, files |-> <<n_v_vue>>])
  @@ (<<n_node_modules>> :> [dirs |-> <<n_lib>>, files |-> <<n_x_js>>])
  @@ (<<n_node_modules, n_lib>> :> [dirs |-> <<>>, files |-> <<n_y_js>>])
  @@ (<<codemapper>> :> [dirs |-> <<n_output>>, files |-> <<>>])
  @@ (<<codemapper, n_output>> :> [dirs |-> <<>>, files |-> <<n_code_map_txt>>])
  @@ (<<n_xcodemapper>> :> [dirs |-> <<>>, files |-> <<n_f_txt>>])

\* The tree of the example: a.txt ("hello"), b.png, node_modules/x.js
R2Files ==
  { File(<<n_a_txt>>, 5, TRUE, "utf8", <<"h","e","l","l","o">>),
    File(<<n_b_png>>, 9, TRUE, "utf8", <<>>),
    File(<<n_node_modules, n_x_js>>, 1, TRUE, "utf8", <<"x">>) }

R2Listing ==
  (<<>> :> [dirs |-> <<n_node_modules>>, files |-> <<n_b_png, n_a_txt>>])
  @@ (<<n_node_modules>> :> [dirs |-> <<>>, files |-> <<n_x_js>>])

\* src_path.exists() and src_path.is_dir()
RootKind(src) ==
  CASE src = "R1" -> "dir"
    [] src = "R2" -> "dir"
    [] src = "afile" -> "file"
    [] OTHER -> "missing"

Listing(src) == IF src = "R1" THEN R1Listing ELSE R2Listing
FilesOf(src) == IF src = "R1" THEN R1Files ELSE R2Files
FileAt(src, path) == CHOOSE f \in FilesOf(src) : f.path = path
DirsOf(src) == DOMAIN Listing(src)

(***************************************************************************)
(* The configurations and source lists the runs are drawn from             *)
(***************************************************************************)

\* candidate entries of --folders and --except-folders
FolderEntries == { <<".">>, <<"s","r","c","/">>, <<"s","r","c","/","a","p","p">>, <<"n","o","d","e","_","m","o","d","u","l","e","s">>, <<"c","o","d","e","m","a","p","p","e","r">> }

\* candidate entries of --files
IncludeFileEntries == { <<"b","i","g",".","s","q","l">>, <<"s","r","c","/","n",".","t","x","t">>, <<"f",".","t","x","t">> }

\* candidate entries of --except-files
ExcludeFileEntries == { <<"b","i","g",".","s","q","l">>, <<"s","r","c","/","n",".","t","x","t">> }

\* the most entries the four lists of one configuration hold together
MaxRules == 3

\* candidate values of --src
SourceLists ==
  { <<"R1">>, <<"R2">>, <<"missing", "R2">>, <<"R2", "afile", "R1">> }

VARIABLES
  src_folders,     \* self.src_folders
  folders,         \* self.folders
  files,           \* self.files
  except_folders,  \* self.except_folders
  except_files,    \* self.except_files
  stats,           \* self.stats
  pc,              \* where generate_map is: "src", "walk", "files", "done"
  si,              \* index in src_folders of the current src
  stack,           \* os.walk: the directories still to be yielded, next first
  root,            \* the directory os.walk yielded (parts below src_path)
  todo,            \* what is left of sorted(files)
  out,             \* the records written to the output, in order
  warnings,        \* the sources reported as not found or not a directory
  visited,         \* the <<si, root>> whose files the run went through
  handled          \* the <<si, file parts>> the file loop has gone through

vars == <<src_folders, folders, files, except_folders, except_files, stats,
          pc, si, stack, root, todo, out, warnings, visited, handled>>

config == <<src_folders, folders, files, except_folders, except_files>>

text_extensions == DEFAULT_TEXT_EXTENSIONS

(***************************************************************************)
(* CodeMapGenerator                                                        *)
(***************************************************************************)

\* str(Path(path_str)).replace('\\', '/')
normalize_path(path_str) == Replace(PathStr(PathParts(path_str)), "\\", "/")

\* x in parts
InParts(x, parts) == \E i \in 1..Len(parts) : parts[i] = x

\* should_process_folder with the except_folders test left out
should_process_folder_no_except(rel_path) ==
  LET rel_str == normalize_path(PathStr(rel_path))
      folder_name == PathName(rel_path)
  IN  IF InParts(codemapper, rel_path) \/ Contains(rel_str, codemapper_slash)
        THEN FALSE
      ELSE IF \E skip \in COMMON_SKIP_FOLDERS : InParts(skip, rel_path)
        THEN IF folders = {}
               THEN FALSE
               ELSE \E f \in folders : StartsWith(rel_str, normalize_path(f))
      ELSE IF folders # {}
        THEN \E f \in folders :
               \/ StartsWith(rel_str, normalize_path(f))
               \/ rel_str = normalize_path(f)
               \/ folder_name \in folders
      ELSE TRUE

\* should_process_folder where any non-empty folders list lifts the common skip
should_process_folder_any_include(rel_path) ==
  LET rel_str == normalize_path(PathStr(rel_path))
      folder_name == PathName(rel_path)
  IN  IF InParts(codemapper, rel_path) \/ Contains(rel_str, codemapper_slash)
        THEN FALSE
      ELSE IF \E f \in except_folders : StartsWith(rel_str, normalize_path(f))
        THEN FALSE
      ELSE IF \E skip \in COMMON_SKIP_FOLDERS : InParts(skip, rel_path)
        THEN folders # {}
      ELSE IF folders # {}
        THEN \E f \in folders :
               \/ StartsWith(rel_str, normalize_path(f))
               \/ rel_str = normalize_path(f)
               \/ folder_name \in folders
      ELSE TRUE

\* should_process_folder with the common skip test left out
should_process_folder_no_common_skip(rel_path) ==
  LET rel_str == normalize_path(PathStr(rel_path))
      folder_name == PathName(rel_path)
  IN  IF InParts(codemapper, rel_path) \/ Contains(rel_str, codemapper_slash)
        THEN FALSE
      ELSE IF \E f \in except_folders : StartsWith(rel_str, normalize_path(f))
        THEN FALSE
      ELSE IF folders # {}
        THEN \E f \in folders :
               \/ StartsWith(rel_str, normalize_path(f))
               \/ rel_str = normalize_path(f)
               \/ folder_name \in folders
      ELSE TRUE

\* should_process_folder with the "always skip the codemapper folder" test left out
should_process_folder_no_codemapper(rel_path) ==
  LET rel_str == normalize_path(PathStr(rel_path))
      folder_name == PathName(rel_path)
  IN  IF \E f \in except_folders : StartsWith(rel_str, normalize_path(f))
        THEN FALSE
      ELSE IF \E skip \in COMMON_SKIP_FOLDERS : InParts(skip, rel_path)
        THEN IF folders = {}
               THEN FALSE
               ELSE \E f \in folders : StartsWith(rel_str, normalize_path(f))
      ELSE IF folders # {}
        THEN \E f \in folders :
               \/ StartsWith(rel_str, normalize_path(f))
               \/ rel_str = normalize_path(f)
               \/ folder_name \in folders
      ELSE TRUE

\* rel_path is Path(folder_path).relative_to(base_path), given by its parts
should_process_folder(rel_path) ==
  LET rel_str == normalize_path(PathStr(rel_path))
      folder_name == PathName(rel_path)
  IN  IF InParts(codemapper, rel_path) \/ Contains(rel_str, codemapper_slash)
        THEN FALSE
      ELSE IF \E f \in except_folders : StartsWith(rel_str, normalize_path(f))
        THEN FALSE
      ELSE IF \E skip \in COMMON_SKIP_FOLDERS : InParts(skip, rel_path)
        THEN IF folders = {}
               THEN FALSE
               ELSE \E f \in folders : StartsWith(rel_str, normalize_path(f))
      ELSE IF folders # {}
        THEN \E f \in folders :
               \/ StartsWith(rel_str, normalize_path(f))
               \/ rel_str = normalize_path(f)
               \/ folder_name \in folders
      ELSE TRUE

\* rel_path is file_path.relative_to(base_path), given by its parts
should_process_file(src, rel_path) ==
  LET rel_str == normalize_path(PathStr(rel_path))
      filename == PathName(rel_path)
      f == FileAt(src, rel_path)
  IN  IF Contains(rel_str, codemapper_slash)
           \/ Contains(PathStr(rel_path), codemapper_backslash)
        THEN FALSE
      ELSE IF filename \in except_files \/ rel_str \in except_files
        THEN FALSE
      ELSE IF files # {}
        THEN filename \in files \/ rel_str \in files
      ELSE IF f.stat_ok /\ f.size > max_file_size
        THEN FALSE
      ELSE TRUE

is_text_file(rel_path) == Lower(PathSuffix(rel_path)) \in text_extensions

\* read_file_safely without the stats['errors'] += 1 of its except branches
read_file_safely_uncounted(src, rel_path) ==
  LET f == FileAt(src, rel_path)
  IN  IF f.read = "error"
        THEN [content |-> ErrorMarker, errors |-> 0]
        ELSE [content |-> f.content, errors |-> 0]

\* the content returned and what is added to stats['errors']
read_file_safely(src, rel_path) ==
  LET f == FileAt(src, rel_path)
  IN  IF f.read = "error"
        THEN [content |-> ErrorMarker, errors |-> 1]
        ELSE [content |-> f.content, errors |-> 0]

\* the content written with the newline added unconditionally
written_content_always_newline(content) == content \o <<"\n">>

\* what is written between the path line and the closing line
written_content(content) ==
  IF EndsWith(content, <<"\n">>) THEN content ELSE content \o <<"\n">>

\* file_size taken from the file even when stat() fails
tracked_size_of_any(src, rel_path) ==
  LET f == FileAt(src, rel_path) IN f.size

\* file_size as added to stats['total_size']: nothing when stat() fails
tracked_size(src, rel_path) ==
  LET f == FileAt(src, rel_path) IN IF f.stat_ok THEN f.size ELSE 0

\* dirs[:] = [d for d in dirs if self.should_process_folder(Path(root) / d, src_path)]
kept_dirs(src, top) ==
  LET kept == SelectSeq(Listing(src)[top].dirs,
                        LAMBDA d : should_process_folder(Append(top, d)))
  IN  [i \in 1..Len(kept) |-> Append(top, kept[i])]

Init ==
  /\ src_folders \in SourceLists
  /\ folders \in SUBSET FolderEntries
  /\ except_folders \in SUBSET FolderEntries
  /\ files \in SUBSET IncludeFileEntries
  /\ \E ef \in SUBSET ExcludeFileEntries :
       /\ Cardinality(folders) + Cardinality(except_folders)
            + Cardinality(files) + Cardinality(ef) <= MaxRules
       /\ except_files = ef \cup {script_name}
  /\ stats = [text_files |-> 0, binary_files |-> 0, skipped_files |-> 0,
              errors |-> 0, total_size |-> 0]
  /\ pc = "src"
  /\ si = 1
  /\ stack = <<>>
  /\ root = <<>>
  /\ todo = <<>>
  /\ out = <<>>
  /\ warnings = <<>>
  /\ visited = <<>>
  /\ handled = <<>>

src == src_folders[si]

\* for src in self.src_folders: the source is missing or not a directory
SkipSource ==
  /\ pc = "src" /\ si <= Len(src_folders)
  /\ RootKind(src) # "dir"
  /\ warnings' = Append(warnings, <<si, RootKind(src)>>)
  /\ si' = si + 1
  /\ UNCHANGED <<config, stats, pc, stack, root, todo, out, visited, handled>>

\* os.walk(src_path) starts at the source itself
StartWalk ==
  /\ pc = "src" /\ si <= Len(src_folders)
  /\ RootKind(src) = "dir"
  /\ stack' = << <<>> >>
  /\ pc' = "walk"
  /\ UNCHANGED <<config, stats, si, root, todo, out, warnings, visited, handled>>

\* os.walk yields a directory that should_process_folder accepts
WalkDescend ==
  /\ pc = "walk" /\ stack # <<>>
  /\ LET top == Head(stack)
     IN  /\ should_process_folder(top)
         /\ stack' = kept_dirs(src, top) \o Tail(stack)
         /\ root' = top
         /\ todo' = sorted(Listing(src)[top].files)
         /\ visited' = Append(visited, <<si, top>>)
  /\ pc' = "files"
  /\ UNCHANGED <<config, stats, si, out, warnings, handled>>

\* os.walk yields a directory that should_process_folder rejects: continue
WalkContinue ==
  /\ pc = "walk" /\ stack # <<>>
  /\ LET top == Head(stack)
     IN  /\ ~should_process_folder(top)
         /\ stack' = kept_dirs(src, top) \o Tail(stack)
  /\ UNCHANGED <<config, stats, pc, si, root, todo, out, warnings, visited, handled>>

\* os.walk is exhausted: the next src
EndWalk ==
  /\ pc = "walk" /\ stack = <<>>
  /\ si' = si + 1
  /\ pc' = "src"
  /\ UNCHANGED <<config, stats, stack, root, todo, out, warnings, visited, handled>>

file_path == Append(root, Head(todo))

\* should_process_file is false
SkipFile ==
  /\ pc = "files" /\ todo # <<>>
  /\ ~should_process_file(src, file_path)
  /\ stats' = [stats EXCEPT !.skipped_files = @ + 1]
  /\ handled' = Append(handled, <<si, file_path>>)
  /\ todo' = Tail(todo)
  /\ UNCHANGED <<config, pc, si, stack, root, out, warnings, visited>>

\* a text file: path line, content, newline if missing, closing line
WriteText ==
  /\ pc = "files" /\ todo # <<>>
  /\ should_process_file(src, file_path)
  /\ is_text_file(file_path)
  /\ LET r == read_file_safely(src, file_path)
     IN  /\ out' = Append(out, [kind |-> "text", si |-> si, path |-> file_path,
                                display_path |-> normalize_path(PathStr(file_path)),
                                content |-> written_content(r.content)])
         /\ stats' = [stats EXCEPT !.total_size = @ + tracked_size(src, file_path),
                                   !.errors = @ + r.errors,
                                   !.text_files = @ + 1]
  /\ handled' = Append(handled, <<si, file_path>>)
  /\ todo' = Tail(todo)
  /\ UNCHANGED <<config, pc, si, stack, root, warnings, visited>>

\* any other file: the path line only
WriteBinary ==
  /\ pc = "files" /\ todo # <<>>
  /\ should_process_file(src, file_path)
  /\ ~is_text_file(file_path)
  /\ out' = Append(out, [kind |-> "binary", si |-> si, path |-> file_path,
                         display_path |-> normalize_path(PathStr(file_path)),
                         content |-> <<>>])
  /\ stats' = [stats EXCEPT !.total_size = @ + tracked_size(src, file_path),
                            !.binary_files = @ + 1]
  /\ handled' = Append(handled, <<si, file_path>>)
  /\ todo' = Tail(todo)
  /\ UNCHANGED <<config, pc, si, stack, root, warnings, visited>>

\* sorted(files) is exhausted: back to os.walk
EndFiles ==
  /\ pc = "files" /\ todo = <<>>
  /\ pc' = "walk"
  /\ UNCHANGED <<config, stats, si, stack, root, todo, out, warnings, visited, handled>>

\* the --SUMMARY record, after the last src
Summary ==
  /\ pc = "src" /\ si > Len(src_folders)
  /\ out' = Append(out, [kind |-> "summary", text |-> stats.text_files,
                         binary |-> stats.binary_files,
                         skipped |-> stats.skipped_files])
  /\ pc' = "done"
  /\ UNCHANGED <<config, stats, si, stack, root, todo, warnings, visited, handled>>

Next ==
  \/ SkipSource
  \/ StartWalk
  \/ WalkDescend
  \/ WalkContinue
  \/ EndWalk
  \/ SkipFile
  \/ WriteText
  \/ WriteBinary
  \/ EndFiles
  \/ Summary

Spec == Init /\ [][Next]_vars

(***************************************************************************)
(* Vocabulary of the properties                                            *)
(***************************************************************************)

Range(q) == {q[k] : k \in 1..Len(q)}

\* the positions in out of the per-file records
RecordIdx == {k \in 1..Len(out) : out[k].kind # "summary"}

\* the sources that are directories
WalkedSources == {i \in 1..Len(src_folders) : RootKind(src_folders[i]) = "dir"}

\* rel_path lies in the subtree of directory d
Under(d, rel_path) == Len(d) < Len(rel_path) /\ SubSeq(rel_path, 1, Len(d)) = d

\* the directory of a file
Parent(rel_path) == SubSeq(rel_path, 1, Len(rel_path) - 1)

\* the relative path of d starts with an entry of the list
Covered(d, entries) ==
  \E f \in entries : StartsWith(normalize_path(PathStr(d)), normalize_path(f))

\* a segment of d is a built-in-skip name
HasSkipSegment(d) == \E k \in 1..Len(d) : d[k] \in COMMON_SKIP_FOLDERS

\* nothing in the subtree of d, in source i, gave a record or moved a counter
NothingFrom(i, d) ==
  /\ \A k \in RecordIdx : ~(out[k].si = i /\ Under(d, out[k].path))
  /\ \A k \in 1..Len(handled) : ~(handled[k][1] = i /\ Under(d, handled[k][2]))

(***************************************************************************)
(* Properties                                                              *)
(***************************************************************************)

\* C1 as stated: every directory covered by both except_folders and folders
\* is pruned, and no file of its subtree gives a record or moves a counter.
C1_ExcludeWinsEverywhere ==
  \A i \in WalkedSources : \A d \in DirsOf(src_folders[i]) :
    (Covered(d, except_folders) /\ Covered(d, folders)) =>
      (~should_process_folder(d) /\ NothingFrom(i, d))

\* C1 amended: every directory covered by both except_folders and folders is
\* pruned; when it is not the source root itself, no file of its subtree gives
\* a record or moves a counter.
C1_ExcludeWinsBelowRoot ==
  \A i \in WalkedSources : \A d \in DirsOf(src_folders[i]) :
    (Covered(d, except_folders) /\ Covered(d, folders)) =>
      (~should_process_folder(d) /\ (d # <<>> => NothingFrom(i, d)))

\* C1 witness: a finished run whose walk met, in a directory it went through,
\* a subdirectory with files that both lists cover.
C1_Witness ==
  /\ pc = "done"
  /\ \E i \in WalkedSources : \E d \in DirsOf(src_folders[i]) :
       /\ d # <<>>
       /\ Covered(d, except_folders) /\ Covered(d, folders)
       /\ <<i, Parent(d)>> \in Range(visited)
       /\ \E f \in FilesOf(src_folders[i]) : Under(d, f.path)

\* C2: a record from the subtree of a directory with a built-in-skip segment
\* exists only when folders is non-empty and covers that directory.
C2_CommonSkip ==
  \A k \in RecordIdx : \A n \in 1..(Len(out[k].path) - 1) :
    LET d == SubSeq(out[k].path, 1, n)
    IN  HasSkipSegment(d) => (folders # {} /\ Covered(d, folders))

\* C2 witness: a finished run that went through the root of a tree holding
\* node_modules, with a folders list that does not cover node_modules, and
\* wrote records.
C2_Witness ==
  /\ pc = "done"
  /\ ~Covered(<<n_node_modules>>, folders)
  /\ \E i \in WalkedSources : <<i, <<>>>> \in Range(visited)
  /\ RecordIdx # {}

\* C9 as stated: no record for a file any segment of whose path, the file's
\* own name included, is "codemapper".
C9_NoCodemapperSegment ==
  \A k \in RecordIdx : ~InParts(codemapper, out[k].path)

\* C9 amended: every directory with a segment "codemapper" is pruned, under
\* every folders and files list, and no record is written for a file in one.
C9_NoCodemapperDirectory ==
  /\ \A i \in WalkedSources : \A d \in DirsOf(src_folders[i]) :
       InParts(codemapper, d) =>
         (~should_process_folder(d) /\ <<i, d>> \notin Range(visited))
  /\ \A k \in RecordIdx : ~InParts(codemapper, Parent(out[k].path))

\* C9 witness: a finished run that went through the root holding the
\* codemapper directory, with "codemapper" itself in folders.
C9_Witness ==
  /\ pc = "done"
  /\ codemapper \in folders
  /\ \E i \in WalkedSources :
       /\ <<codemapper>> \in DirsOf(src_folders[i])
       /\ <<i, <<>>>> \in Range(visited)

\* C3 as stated: with a non-empty folders list, every directory whose
\* relative path equals an entry, that except_folders does not cover and that
\* has no segment "codemapper", is descended by the walk and each of its files
\* goes through the file decision, at any depth.
C3_IncludedFolderReached ==
  pc = "done" =>
    \A i \in WalkedSources : \A d \in DirsOf(src_folders[i]) :
      (/\ folders # {}
       /\ \E f \in folders : normalize_path(PathStr(d)) = normalize_path(f)
       /\ ~Covered(d, except_folders)
       /\ ~InParts(codemapper, d))
      => (/\ <<i, d>> \in Range(visited)
          /\ \A f \in FilesOf(src_folders[i]) :
               Parent(f.path) = d => <<i, f.path>> \in Range(handled))

\* C3 witness: a finished run with node_modules in folders that went through
\* node_modules (a built-in-skip name directly below the root).
C3_Witness ==
  /\ pc = "done"
  /\ n_node_modules \in folders
  /\ \E i \in WalkedSources : <<i, <<n_node_modules>>>> \in Range(visited)

\* the file got a record
Emitted(i, rel_path) == \E k \in RecordIdx : out[k].si = i /\ out[k].path = rel_path

\* C4 as stated: with a non-empty files list, a file of a descended directory
\* that has no segment "codemapper" (rule a) and is not in except_files
\* (rule b) is processed exactly when its name or relative path is in files,
\* whatever its size.
C4_IncludeFilesDecides ==
  files # {} =>
    \A k \in 1..Len(handled) :
      LET i == handled[k][1]
          rel_path == handled[k][2]
          rel_str == normalize_path(PathStr(rel_path))
      IN  (/\ ~InParts(codemapper, rel_path)
           /\ PathName(rel_path) \notin except_files
           /\ rel_str \notin except_files)
          => (Emitted(i, rel_path) <=> (PathName(rel_path) \in files \/ rel_str \in files))

\* C4 witness: a file larger than max_file_size, with a text extension and
\* named in files, got a text record with its content.
C4_Witness ==
  \E k \in RecordIdx :
    LET f == FileAt(src_folders[out[k].si], out[k].path)
    IN  /\ PathName(out[k].path) \in files
        /\ f.stat_ok /\ f.size > max_file_size
        /\ out[k].kind = "text"
        /\ out[k].content = f.content

\* the positions in out of the text records
TextIdx == {k \in RecordIdx : out[k].kind = "text"}

\* the content read_file_safely returned for record k
Decoded(k) == read_file_safely(src_folders[out[k].si], out[k].path).content

\* C5 as stated: the content written for a text record ends with exactly one
\* newline.
C5_ExactlyOneNewline ==
  \A k \in TextIdx :
    EndsWith(out[k].content, <<"\n">>) /\ ~EndsWith(out[k].content, <<"\n", "\n">>)

\* C5 amended: the content written for a text record is the content read,
\* followed by one newline exactly when the content read does not end with a
\* newline; so it always ends with a newline, and with exactly one unless the
\* content read ends with several.
C5_NewlineTerminated ==
  \A k \in TextIdx :
    /\ EndsWith(out[k].content, <<"\n">>)
    /\ out[k].content =
         (IF Decoded(k) # <<>> /\ Decoded(k)[Len(Decoded(k))] = "\n"
            THEN Decoded(k) ELSE Decoded(k) \o <<"\n">>)
    /\ (~EndsWith(Decoded(k), <<"\n", "\n">>) => ~EndsWith(out[k].content, <<"\n", "\n">>))

\* C5 witness: one finished run wrote text records for an empty content, a
\* content without a final newline, one with one and one with several.
C5_Witness ==
  /\ pc = "done"
  /\ \E k \in TextIdx : Decoded(k) = <<>>
  /\ \E k \in TextIdx : Decoded(k) # <<>> /\ ~EndsWith(Decoded(k), <<"\n">>)
  /\ \E k \in TextIdx : EndsWith(Decoded(k), <<"\n">>) /\ ~EndsWith(Decoded(k), <<"\n", "\n">>)
  /\ \E k \in TextIdx : EndsWith(Decoded(k), <<"\n", "\n">>)

\* the run of the example: the tree a.txt, b.png, node_modules/x.js alone,
\* with empty folders, files and except_folders
ExampleRun ==
  /\ src_folders = <<"R2">>
  /\ folders = {} /\ files = {} /\ except_folders = {}

\* what the example run has written and counted when it ends
ExampleResult(skipped) ==
  /\ out = << [kind |-> "text", si |-> 1, path |-> <<n_a_txt>>,
               display_path |-> n_a_txt, content |-> <<"h","e","l","l","o","\n">>],
              [kind |-> "binary", si |-> 1, path |-> <<n_b_png>>,
               display_path |-> n_b_png, content |-> <<>>],
              [kind |-> "summary", text |-> 1, binary |-> 1, skipped |-> skipped] >>
  /\ stats.text_files = 1 /\ stats.binary_files = 1 /\ stats.skipped_files = skipped

\* C6 as stated: the example run ends with Text:1 Binary:1 Skipped:1.
C6_ExampleSkippedOne == (ExampleRun /\ pc = "done") => ExampleResult(1)

\* C6 amended: the example run writes a text record for a.txt ("hello\n"), a
\* marker-only record for b.png, nothing for node_modules/x.js, and ends with
\* Text:1 Binary:1 Skipped:0 (a file of a pruned directory is never counted).
C6_ExampleSkippedZero == (ExampleRun /\ pc = "done") => ExampleResult(0)

\* C6 witness: the example run has ended.
C6_Witness == ExampleRun /\ pc = "done" /\ Len(out) = 3

\* the position in visited of directory d of source i
DirIndex(i, d) == CHOOSE n \in 1..Len(visited) : visited[n] = <<i, d>>

\* C7: records follow the order of the sources, then the order in which the
\* walk went through the directories (so the records of one directory are
\* contiguous), then the strictly increasing order of the file names; the
\* summary is written once, last, when the run ends.
C7_RecordOrder ==
  /\ \A j, k \in RecordIdx :
       j < k =>
         /\ out[j].si <= out[k].si
         /\ <<out[j].si, Parent(out[j].path)>> \in Range(visited)
         /\ <<out[k].si, Parent(out[k].path)>> \in Range(visited)
         /\ DirIndex(out[j].si, Parent(out[j].path)) <= DirIndex(out[k].si, Parent(out[k].path))
         /\ (out[j].si = out[k].si /\ Parent(out[j].path) = Parent(out[k].path))
              => LexLess(PathName(out[j].path), PathName(out[k].path))
  /\ \A j, k \in 1..Len(visited) : visited[j] = visited[k] => j = k
  /\ \A k \in 1..Len(out) : out[k].kind = "summary" => (k = Len(out) /\ pc = "done")
  /\ pc = "done" => (out # <<>> /\ out[Len(out)].kind = "summary")

\* C7 witness: a finished run with records from two sources and two records
\* from one directory.
C7_Witness ==
  /\ pc = "done"
  /\ \E j, k \in RecordIdx : out[j].si < out[k].si
  /\ \E j, k \in RecordIdx :
       j < k /\ out[j].si = out[k].si /\ Parent(out[j].path) = Parent(out[k].path)

\* the guard of some action holds: the run can take its next step
CanStep ==
  \/ pc = "src" /\ si <= Len(src_folders) /\ RootKind(src) # "dir"
  \/ pc = "src" /\ si <= Len(src_folders) /\ RootKind(src) = "dir"
  \/ pc = "src" /\ si > Len(src_folders)
  \/ pc = "walk" /\ stack # <<>> /\ should_process_folder(Head(stack))
  \/ pc = "walk" /\ stack # <<>> /\ ~should_process_folder(Head(stack))
  \/ pc = "walk" /\ stack = <<>>
  \/ pc = "files" /\ todo # <<>> /\ ~should_process_file(src, file_path)
  \/ pc = "files" /\ todo # <<>> /\ should_process_file(src, file_path)
       /\ is_text_file(file_path)
  \/ pc = "files" /\ todo # <<>> /\ should_process_file(src, file_path)
       /\ ~is_text_file(file_path)
  \/ pc = "files" /\ todo = <<>>

\* the text records whose read failed
FailedReads == {k \in TextIdx : FileAt(src_folders[out[k].si], out[k].path).read = "error"}

\* C8: a source that is missing or not a directory gives a warning and no
\* record, and the later sources are still walked; a failed read gives a record
\* holding the error marker and adds exactly one to errors, a read that
\* succeeds as Latin-1 adds nothing; a file whose stat fails is still
\* processed; and the run never stops before the summary is written.
C8_NoAbort ==
  /\ pc = "done" \/ CanStep
  /\ \A i \in 1..Len(src_folders) :
       RootKind(src_folders[i]) # "dir" =>
         /\ \A k \in RecordIdx : out[k].si # i
         /\ \A n \in 1..Len(visited) : visited[n][1] # i
         /\ si > i => <<i, RootKind(src_folders[i])>> \in Range(warnings)
  /\ pc = "done" =>
       /\ out[Len(out)].kind = "summary"
       /\ \A i \in WalkedSources : should_process_folder(<<>>) => <<i, <<>>>> \in Range(visited)
  /\ \A k \in FailedReads : out[k].content = ErrorMarker \o <<"\n">>
  /\ \A k \in TextIdx \ FailedReads :
       out[k].content # ErrorMarker \o <<"\n">>
  /\ stats.errors = Cardinality(FailedReads)
  /\ \A k \in 1..Len(handled) :
       LET i == handled[k][1]
           rel_path == handled[k][2]
           rel_str == normalize_path(PathStr(rel_path))
       IN  (/\ ~FileAt(src_folders[i], rel_path).stat_ok
            /\ ~Contains(rel_str, codemapper_slash)
            /\ PathName(rel_path) \notin except_files /\ rel_str \notin except_files
            /\ files = {})
           => Emitted(i, rel_path)

\* C8 witness: a finished run that skipped a source that is not a directory,
\* then walked a later one where it met a failed read, a Latin-1 read and a
\* failed stat.
C8_Witness ==
  /\ pc = "done"
  /\ warnings # <<>>
  /\ \E k \in FailedReads : out[k].si > warnings[1][1]
  /\ \E k \in TextIdx :
       LET f == FileAt(src_folders[out[k].si], out[k].path)
       IN  f.read = "latin1" /\ ~f.stat_ok

\* the size of the file of record k at its stat call, 0 when the call fails
RecordSize(k) ==
  LET f == FileAt(src_folders[out[k].si], out[k].path)
  IN  IF f.stat_ok THEN f.size ELSE 0

\* the sizes of the files of the first n entries of out that are records
RECURSIVE SumSizes(_)
SumSizes(n) ==
  IF n = 0 THEN 0
  ELSE (IF n \in RecordIdx THEN RecordSize(n) ELSE 0) + SumSizes(n - 1)

Counted == stats.text_files + stats.binary_files + stats.skipped_files

\* C10, in every state: the counters agree with what was written and handled
C10_Accounting ==
  /\ stats.text_files + stats.binary_files = Cardinality(RecordIdx)
  /\ stats.text_files = Cardinality(TextIdx)
  /\ Counted = Len(handled)
  /\ stats.errors <= stats.text_files
  /\ stats.total_size = SumSizes(Len(out))
  /\ pc = "done" =>
       /\ out[Len(out)].text = stats.text_files
       /\ out[Len(out)].binary = stats.binary_files
       /\ out[Len(out)].skipped = stats.skipped_files

\* C10, in every step: no counter decreases, and the three file counters move,
\* one of them by one, exactly when a file has been handled
C10_Step ==
  /\ stats'.text_files >= stats.text_files
  /\ stats'.binary_files >= stats.binary_files
  /\ stats'.skipped_files >= stats.skipped_files
  /\ stats'.errors >= stats.errors
  /\ stats'.total_size >= stats.total_size
  /\ IF handled' # handled
       THEN /\ Len(handled') = Len(handled) + 1
            /\ Counted' = Counted + 1
       ELSE stats' = stats

\* C10: no counter ever decreases; each handled file adds one to exactly one
\* of text_files, binary_files, skipped_files; text_files + binary_files is the
\* number of records, the three together the number of files handled,
\* errors <= text_files, and total_size is the sum of the sizes of the files
\* that got a record.
C10_StatsAccounting == [](C10_Accounting) /\ [][C10_Step]_vars

\* C10 witness: a finished run that wrote text and binary records, skipped a
\* file, counted an error and processed a file whose stat failed.
C10_Witness ==
  /\ pc = "done"
  /\ stats.text_files > 0 /\ stats.binary_files > 0 /\ stats.skipped_files > 0
  /\ stats.errors > 0
  /\ \E k \in RecordIdx : ~FileAt(src_folders[out[k].si], out[k].path).stat_ok

====
